---- MODULE Spec2Model ----
(***************************************************************************)
(* The SPWN front end: the tree-building pass of parser.rs (parse_spwn,    *)
(* parse_statements, parse_path, parse_variable, parse_value, parse_expr)  *)
(* and the helpers of ast.rs (Tag::get, Tag::get_desc, str_content).       *)
(*                                                                         *)
(* A string is a sequence of one-character strings.  Option<T> is a        *)
(* sequence of length 0 (None) or 1 (Some).  A Rust call either returns a  *)
(* value or panics; both outcomes are a record [ok, val].  Enum values are *)
(* tuples whose first element is the variant's name.                       *)
(***************************************************************************)
EXTENDS Integers, Sequences, FiniteSets, TLC

VARIABLES fn, arg, pc, ret

vars == <<fn, arg, pc, ret>>

None == <<>>
Some(x) == <<x>>

Ok(v) == [ok |-> TRUE, val |-> v]
Panic(msg) == [ok |-> FALSE, val |-> msg]

UnwrapNone == "called Option::unwrap() on a None value"
Unreachable == "internal error: entered unreachable code"
UnwrapErr == "called Result::unwrap() on an Err value"
InvalidNumber == "invalid number"
ReadFailed == "Something went wrong reading the file"
ParseFailed == "unsuccessful parse"

(***************************************************************************)
(* ast.rs                                                                  *)
(***************************************************************************)
Quote == "\""

\* String::replace("\"", ""): scan left to right, copy what does not match the
\* pattern, skip each match.
RECURSIVE replace_from(_, _, _, _)
replace_from(inp, from, i, acc) ==
    IF i > Len(inp) THEN acc
    ELSE IF inp[i] = from THEN replace_from(inp, from, i + 1, acc)
    ELSE replace_from(inp, from, i + 1, Append(acc, inp[i]))

\* Mutant: only the delimiting pair of quotes is stripped.
str_content_mut(inp) ==
    IF Len(inp) >= 2 /\ inp[1] = Quote /\ inp[Len(inp)] = Quote
    THEN SubSeq(inp, 2, Len(inp) - 1)
    ELSE inp

str_content(inp) == replace_from(inp, Quote, 1, <<>>)

Digits == <<"0", "1", "2", "3", "4", "5", "6", "7", "8", "9">>

RECURSIVE int_to_str(_)
int_to_str(n) ==
    IF n < 10 THEN <<Digits[n + 1]>>
    ELSE Append(int_to_str(n \div 10), Digits[(n % 10) + 1])

Chars(word) ==
    CASE word = "Number" -> <<"N", "u", "m", "b", "e", "r">>
      [] word = "Symbol" -> <<"S", "y", "m", "b", "o", "l">>
      [] word = "Bool" -> <<"B", "o", "o", "l">>
      [] word = "Null" -> <<"N", "u", "l", "l">>
      [] word = "true" -> <<"t", "r", "u", "e">>
      [] word = "false" -> <<"f", "a", "l", "s", "e">>

\* format!("{:?}", a) of the derived Debug, for the literals drawn below.
DebugFmt(a) ==
    CASE a[1] = "Number" -> Chars("Number") \o <<"(">> \o int_to_str(a[2]) \o <<".", "0", ")">>
      [] a[1] = "Symbol" -> Chars("Symbol") \o <<"(", Quote>> \o a[2] \o <<Quote, ")">>
      [] a[1] = "Bool" -> Chars("Bool") \o <<"(">>
                            \o (IF a[2] THEN Chars("true") ELSE Chars("false")) \o <<")">>
      [] a[1] = "Null" -> Chars("Null")

\* Mutant: the last pair of the name wins.
RECURSIVE get_from_mut(_, _, _)
get_from_mut(tags, t, i) ==
    IF i > Len(tags) THEN None
    ELSE LET later == get_from_mut(tags, t, i + 1) IN
         IF later # None THEN later
         ELSE IF t = tags[i][1] THEN Some(tags[i][2]) ELSE None

RECURSIVE get_from(_, _, _)
get_from(tags, t, i) ==
    IF i > Len(tags) THEN None
    ELSE IF t = tags[i][1] THEN Some(tags[i][2])
    ELSE get_from(tags, t, i + 1)

Tag_get(tags, t) == get_from(tags, t, 1)

Desc == <<"d", "e", "s", "c">>

Tag_get_desc(tags) ==
    LET got == Tag_get(tags, Desc) IN
    IF got = None THEN Ok(None)
    ELSE LET args == got[1] IN
         IF Len(args) = 0 THEN Ok(None)
         ELSE IF Len(args[1].value.values) = 0 THEN Panic("index out of bounds")
         ELSE LET a == args[1].value.values[1].value IN
              IF a[1] = "Str" THEN Ok(Some(a[2])) ELSE Ok(Some(DebugFmt(a)))

(***************************************************************************)
(* parser.rs                                                               *)
(***************************************************************************)
U16Max == 65535

DigitVal(c) == CHOOSE d \in 0..9 : Digits[d + 1] = c

IsDigit(c) == \E d \in 1..10 : Digits[d] = c

\* <u16 as FromStr>: an empty text, a character that is no digit and a value
\* above u16::MAX are errors.
RECURSIVE parse_u16_from(_, _, _)
parse_u16_from(s, i, acc) ==
    IF i > Len(s) THEN Ok(acc)
    ELSE IF ~IsDigit(s[i]) THEN Panic(UnwrapErr)
    ELSE IF acc * 10 > U16Max THEN Panic(UnwrapErr)
    ELSE IF acc * 10 + DigitVal(s[i]) > U16Max THEN Panic(UnwrapErr)
    ELSE parse_u16_from(s, i + 1, acc * 10 + DigitVal(s[i]))

parse_u16(s) == IF Len(s) = 0 THEN Panic(UnwrapErr) ELSE parse_u16_from(s, 1, 0)

\* <f64 as FromStr> on the texts drawn below (digits only): the value, exact.
RECURSIVE parse_f64_from(_, _, _)
parse_f64_from(s, i, acc) ==
    IF i > Len(s) THEN Ok(acc)
    ELSE IF ~IsDigit(s[i]) THEN Panic(InvalidNumber)
    ELSE parse_f64_from(s, i + 1, acc * 10 + DigitVal(s[i]))

parse_f64(s) == IF Len(s) = 0 THEN Panic(InvalidNumber) ELSE parse_f64_from(s, 1, 0)

\* A call of one of the mutually recursive functions and closures of the tree
\* builder.
RECURSIVE call(_, _)

\* pairs.map(f).collect(): f is called on the pairs in order; the first panic
\* ends the iteration, else the vector of the values is returned.
RECURSIVE collect_from(_, _, _, _)
collect_from(f, pairs, i, acc) ==
    IF i > Len(pairs) THEN Ok(acc)
    ELSE LET r == call(f, pairs[i]) IN
         IF ~r.ok THEN r ELSE collect_from(f, pairs, i + 1, Append(acc, r.val))

map_collect(f, pairs) == collect_from(f, pairs, 1, <<>>)

RECURSIVE parse_expr_from(_, _, _, _)

\* The closure parse_args of parse_statements and of parse_path (the same text).
parse_args(a) ==
    LET argument == a.inner IN
    IF Len(argument) = 0 THEN Panic(UnwrapNone)
    ELSE LET first == argument[1] IN
         CASE first.rule = "symbol" ->
                IF Len(argument) < 2 THEN Panic(UnwrapNone)
                ELSE LET v == call("parse_expr", argument[2]) IN
                     IF ~v.ok THEN v
                     ELSE Ok([symbol |-> Some(first.str), value |-> v.val])
           [] first.rule = "expr" ->
                LET v == call("parse_expr", first) IN
                IF ~v.ok THEN v ELSE Ok([symbol |-> None, value |-> v.val])
           [] OTHER -> Panic(Unreachable)

parse_native_prop(prop) ==
    LET prop_inner == prop.inner IN
    IF Len(prop_inner) < 2 THEN Panic(UnwrapNone)
    ELSE LET args == map_collect("parse_args", prop_inner[2].inner) IN
         IF ~args.ok THEN args ELSE Ok(<<prop_inner[1].str, args.val>>)

NullExpression ==
    [values |-> <<[value |-> <<"Null">>, path |-> <<>>]>>, operators |-> <<>>]

\* Mutant: the first child left in inner is skipped, as if it were the value.
native_props_mut(rest) ==
    map_collect("parse_native_prop", IF Len(rest) = 0 THEN rest ELSE Tail(rest))

\* inner.map(parse_native_prop).collect() over the children left in inner.
native_props(rest) == map_collect("parse_native_prop", rest)

parse_def(statement) ==
    LET inner == statement.inner IN
    IF Len(inner) = 0 THEN Panic(UnwrapNone)
    ELSE LET first == inner[1] IN
         CASE first.rule = "expr" ->
                LET value == call("parse_expr", first)
                    props == native_props(SubSeq(inner, 2, Len(inner))) IN
                IF ~value.ok THEN value
                ELSE IF ~props.ok THEN props
                ELSE Ok(<<"Definition",
                          [symbol |-> <<"*">>, value |-> value.val, props |-> props.val]>>)
           [] first.rule = "symbol" ->
                IF Len(inner) < 2 THEN Panic(UnwrapNone)
                ELSE LET value == call("parse_expr", inner[2])
                         props == native_props(SubSeq(inner, 3, Len(inner))) IN
                     IF ~value.ok THEN value
                     ELSE IF ~props.ok THEN props
                     ELSE Ok(<<"Definition",
                               [symbol |-> first.str, value |-> value.val,
                                props |-> props.val]>>)
           [] OTHER -> Panic(Unreachable)

parse_if(statement) ==
    LET inner == statement.inner IN
    IF Len(inner) = 0 THEN Panic(UnwrapNone)
    ELSE LET condition == call("parse_expr", inner[1]) IN
         IF ~condition.ok THEN condition
         ELSE IF Len(inner) < 2 THEN Panic(UnwrapNone)
         ELSE LET if_body == call("parse_statements", inner[2].inner) IN
              IF ~if_body.ok THEN if_body
              ELSE IF Len(inner) < 3
                   THEN Ok(<<"If", [condition |-> condition.val, if_body |-> if_body.val,
                                    else_body |-> None]>>)
              ELSE LET else_body == call("parse_statements", inner[3].inner) IN
                   IF ~else_body.ok THEN else_body
                   ELSE Ok(<<"If", [condition |-> condition.val, if_body |-> if_body.val,
                                    else_body |-> Some(else_body.val)]>>)

parse_implement(statement) ==
    LET inner == statement.inner IN
    IF Len(inner) = 0 THEN Panic(UnwrapNone)
    ELSE LET symbol == call("parse_variable", inner[1]) IN
         IF ~symbol.ok THEN symbol
         ELSE IF Len(inner) < 2 THEN Panic(UnwrapNone)
         ELSE LET members == call("parse_statements", inner[2].inner) IN
              IF ~members.ok THEN members
              ELSE Ok(<<"Impl", [symbol |-> symbol.val, members |-> members.val]>>)

\* Mutant: an unrecognized statement aborts, like the other matches of the file.
unknown_statement_mut(statement) == Panic(Unreachable)

\* The arm _ of the match of parse_statements: a notice is printed, the
\* statement is EOI.
unknown_statement(statement) == Ok(<<"EOI">>)

\* One turn of the loop of parse_statements: the statement pushed for one child.
parse_statement(statement) ==
    CASE statement.rule = "def" -> parse_def(statement)
      [] statement.rule = "call" ->
           IF Len(statement.inner) = 0 THEN Panic(UnwrapNone)
           ELSE LET function == call("parse_variable", statement.inner[1]) IN
                IF ~function.ok THEN function
                ELSE Ok(<<"Call", [function |-> function.val]>>)
      [] statement.rule = "if_stmt" -> parse_if(statement)
      [] statement.rule = "add_obj" ->
           IF Len(statement.inner) = 0 THEN Panic(UnwrapNone)
           ELSE LET e == call("parse_expr", statement.inner[1]) IN
                IF ~e.ok THEN e ELSE Ok(<<"Add", e.val>>)
      [] statement.rule = "implement" -> parse_implement(statement)
      [] statement.rule = "expr" ->
           LET e == call("parse_expr", statement) IN
           IF ~e.ok THEN e ELSE Ok(<<"Expr", e.val>>)
      [] statement.rule = "retrn" ->
           IF Len(statement.inner) = 0 THEN Ok(<<"Return", NullExpression>>)
           ELSE LET e == call("parse_expr", statement.inner[1]) IN
                IF ~e.ok THEN e ELSE Ok(<<"Return", e.val>>)
      [] statement.rule = "EOI" -> Ok(<<"EOI">>)
      [] OTHER -> unknown_statement(statement)

parse_statements(statements) == map_collect("parse_statement", statements)

parse_path(pair) ==
    CASE pair.rule = "symbol" -> Ok(<<"Member", pair.str>>)
      [] pair.rule = "index" ->
           IF Len(pair.inner) = 0 THEN Panic(UnwrapNone)
           ELSE LET e == call("parse_expr", pair.inner[1]) IN
                IF ~e.ok THEN e ELSE Ok(<<"Index", e.val>>)
      [] pair.rule = "arguments" ->
           LET args == map_collect("parse_args", pair.inner) IN
           IF ~args.ok THEN args ELSE Ok(<<"Call", args.val>>)
      [] OTHER -> Panic(Unreachable)

parse_id(pair) ==
    LET scope == pair.inner IN
    IF Len(scope) = 0 THEN Panic(UnwrapNone)
    ELSE LET first_value == scope[1] IN
         IF first_value.rule = "number"
         THEN LET number == parse_u16(first_value.str) IN
              IF ~number.ok THEN number
              ELSE IF Len(scope) < 2 THEN Panic(UnwrapNone)
              ELSE Ok(<<"ID", [number |-> number.val, unspecified |-> FALSE,
                               class_name |-> scope[2].str]>>)
         ELSE Ok(<<"ID", [number |-> 0, unspecified |-> TRUE,
                          class_name |-> first_value.str]>>)

parse_macro_arg(a) ==
    LET full == a.inner IN
    IF Len(full) = 0 THEN Panic(UnwrapNone)
    ELSE IF Len(full) < 2 THEN Ok(<<full[1].str, None>>)
    ELSE LET default == call("parse_expr", full[2]) IN
         IF ~default.ok THEN default ELSE Ok(<<full[1].str, Some(default.val)>>)

parse_macro_def(pair) ==
    LET inner == pair.inner IN
    IF Len(inner) = 0 THEN Panic(UnwrapNone)
    ELSE LET args == map_collect("parse_macro_arg", inner[1].inner) IN
         IF ~args.ok THEN args
         ELSE IF Len(inner) < 2 THEN Panic(UnwrapNone)
         ELSE LET body == call("parse_statements", inner[2].inner) IN
              IF ~body.ok THEN body
              ELSE Ok(<<"Macro", [args |-> args.val, body |-> [statements |-> body.val]]>>)

parse_obj_prop(prop) ==
    LET inner == prop.inner IN
    IF Len(inner) = 0 THEN Panic(UnwrapNone)
    ELSE LET k == call("parse_expr", inner[1]) IN
         IF ~k.ok THEN k
         ELSE IF Len(inner) < 2 THEN Panic(UnwrapNone)
         ELSE LET v == call("parse_expr", inner[2]) IN
              IF ~v.ok THEN v ELSE Ok(<<k.val, v.val>>)

\* Mutant: an unrecognized value aborts, like the other matches of the file.
unknown_value_mut(pair) == Panic(Unreachable)

\* The arm _ of the match of parse_value: a notice is printed, the literal is
\* Number(0.0).
unknown_value(pair) == Ok(<<"Number", 0>>)

parse_value(pair) ==
    CASE pair.rule = "id" -> parse_id(pair)
      [] pair.rule = "macro_def" -> parse_macro_def(pair)
      [] pair.rule = "number" ->
           LET n == parse_f64(pair.str) IN
           IF ~n.ok THEN n ELSE Ok(<<"Number", n.val>>)
      [] pair.rule = "bool" -> Ok(<<"Bool", pair.str = Chars("true")>>)
      [] pair.rule = "dictionary" ->
           LET members == call("parse_statements", pair.inner) IN
           IF ~members.ok THEN members
           ELSE Ok(<<"Dictionary", [members |-> members.val]>>)
      [] pair.rule = "cmp_stmt" ->
           LET statements == call("parse_statements", pair.inner) IN
           IF ~statements.ok THEN statements
           ELSE Ok(<<"CmpStmt", [statements |-> statements.val]>>)
      [] pair.rule = "obj" ->
           LET props == map_collect("parse_obj_prop", pair.inner) IN
           IF ~props.ok THEN props ELSE Ok(<<"Obj", props.val>>)
      [] pair.rule = "value_literal" ->
           IF Len(pair.inner) = 0 THEN Panic(UnwrapNone) ELSE call("parse_value", pair.inner[1])
      [] pair.rule = "variable" ->
           IF Len(pair.inner) = 0 THEN Panic(UnwrapNone) ELSE call("parse_value", pair.inner[1])
      [] pair.rule = "expr" ->
           LET e == call("parse_expr", pair) IN
           IF ~e.ok THEN e ELSE Ok(<<"Expression", e.val>>)
      [] pair.rule = "symbol" -> Ok(<<"Symbol", pair.str>>)
      [] pair.rule = "string" -> Ok(<<"Str", str_content(pair.str)>>)
      [] pair.rule = "array" ->
           LET es == map_collect("parse_expr", pair.inner) IN
           IF ~es.ok THEN es ELSE Ok(<<"Array", es.val>>)
      [] pair.rule = "import" ->
           IF Len(pair.inner) = 0 THEN Panic(UnwrapNone)
           ELSE Ok(<<"Import", str_content(pair.inner[1].str)>>)
      [] OTHER -> unknown_value(pair)

\* Mutant: the path is collected last sibling first.
parse_variable_mut(pair) ==
    LET call_list == pair.inner IN
    IF Len(call_list) = 0 THEN Panic(UnwrapNone)
    ELSE LET value == call("parse_value", call_list[1]) IN
         IF ~value.ok THEN value
         ELSE LET rest == Tail(call_list)
                  path == map_collect("parse_path",
                                      [i \in 1..Len(rest) |-> rest[Len(rest) + 1 - i]]) IN
              IF ~path.ok THEN path
              ELSE Ok([value |-> value.val, path |-> path.val])

parse_variable(pair) ==
    LET call_list == pair.inner IN
    IF Len(call_list) = 0 THEN Panic(UnwrapNone)
    ELSE LET value == call("parse_value", call_list[1]) IN
         IF ~value.ok THEN value
         ELSE LET path == map_collect("parse_path", Tail(call_list)) IN
              IF ~path.ok THEN path
              ELSE Ok([value |-> value.val, path |-> path.val])

\* The loop of parse_expr over the children from the k-th on.
parse_expr_from(items, k, values, operators) ==
    IF k > Len(items) THEN Ok([operators |-> operators, values |-> values])
    ELSE IF items[k].rule = "operator"
    THEN parse_expr_from(items, k + 1, values, Append(operators, items[k].str))
    ELSE LET v == call("parse_variable", items[k]) IN
         IF ~v.ok THEN v
         ELSE parse_expr_from(items, k + 1, Append(values, v.val), operators)

\* Mutant: the loop starts at the second child.
parse_expr_mut(pair) == parse_expr_from(pair.inner, 2, <<>>, <<>>)

parse_expr(pair) == parse_expr_from(pair.inner, 1, <<>>, <<>>)

call(f, x) ==
    CASE f = "parse_statements" -> parse_statements(x)
      [] f = "parse_expr" -> parse_expr(x)
      [] f = "parse_variable" -> parse_variable(x)
      [] f = "parse_value" -> parse_value(x)
      [] f = "parse_path" -> parse_path(x)
      [] f = "parse_statement" -> parse_statement(x)
      [] f = "parse_args" -> parse_args(x)
      [] f = "parse_native_prop" -> parse_native_prop(x)
      [] f = "parse_macro_arg" -> parse_macro_arg(x)
      [] f = "parse_obj_prop" -> parse_obj_prop(x)

\* Mutant: both failures carry the message of the second.
parse_spwn_mut(source) ==
    IF ~source.readable THEN Panic(ParseFailed)
    ELSE IF ~source.accepted THEN Panic(ParseFailed)
    ELSE call("parse_statements", source.tree.inner)

\* source: whether fs::read_to_string succeeds, whether SPWNParser::parse accepts
\* the text, and the spwn pair it then yields.
parse_spwn(source) ==
    IF ~source.readable THEN Panic(ReadFailed)
    ELSE IF ~source.accepted THEN Panic(ParseFailed)
    ELSE call("parse_statements", source.tree.inner)

(***************************************************************************)
(* The parse trees of the grammar spwn.pest, as the tree builder reads     *)
(* them: a pair has a rule, the text of its span and its inner pairs.      *)
(***************************************************************************)
MaxDepth == 1
MaxPath == 2
MaxProps == 2
MaxStmts == 3
MaxDigits == 5
MaxStrLen == 4
MaxTags == 3

SeqsUpTo(S, n) == UNION {[1..k -> S] : k \in 0..n}

Pair(rule, str, inner) == [rule |-> rule, str |-> str, inner |-> inner]

Sym(name) == Pair("symbol", name, <<>>)
Num(text) == Pair("number", text, <<>>)
Str(text) == Pair("string", text, <<>>)
Op(text) == Pair("operator", text, <<>>)
Class(text) == Pair("id_class", text, <<>>)
Var(value, path) == Pair("variable", <<>>, <<value>> \o path)
Expr1(x) == Pair("expr", <<>>, <<x>>)
Expr2(x, op, y) == Pair("expr", <<>>, <<x, Op(op), y>>)
Expr3(x, op, y, oq, z) == Pair("expr", <<>>, <<x, Op(op), y, Op(oq), z>>)
Arg(e) == Pair("argument", <<>>, <<e>>)
ArgNamed(name, e) == Pair("argument", <<>>, <<Sym(name), e>>)
Args(as) == Pair("arguments", <<>>, as)
Index(e) == Pair("index", <<>>, <<e>>)
Id(text, class) == Pair("id", <<>>, <<Num(text), Class(class)>>)
IdUnspecified(class) == Pair("id", <<>>, <<Class(class)>>)
Block(rule, stmts) == Pair(rule, <<>>, stmts)

\* A rule of the grammar that no match of the tree builder names.
Unsupported == Pair("unsupported", <<"~">>, <<>>)

StatementRules == {"def", "call", "if_stmt", "add_obj", "implement", "expr", "retrn", "EOI"}

ValueRules ==
    {"id", "macro_def", "number", "bool", "dictionary", "cmp_stmt", "obj", "value_literal",
     "variable", "expr", "symbol", "string", "array", "import"}

HandleDigits == {"0", "3", "5", "6"}
Classes == {<<"g">>, <<"c">>}

NumberTexts == UNION {[1..k -> HandleDigits] : k \in 1..MaxDigits}

IdNodes == {Id(t, c) : t \in NumberTexts, c \in Classes} \cup {IdUnspecified(c) : c \in Classes}

EmptyMacro == Pair("macro_def", <<>>, <<Pair("macro_args", <<>>, <<>>), Block("cmp_stmt", <<>>)>>)

LeafValues ==
    {Sym(<<"a">>), Num(<<"7">>), Str(<<Quote, "h", Quote>>), Pair("bool", Chars("true"), <<>>),
     Pair("bool", Chars("false"), <<>>),
     Id(<<"1", "0">>, <<"g">>), Id(<<"6", "5", "5", "3", "6">>, <<"g">>), IdUnspecified(<<"g">>),
     Unsupported, Pair("import", <<>>, <<Str(<<Quote, "m", Quote>>)>>),
     Pair("array", <<>>, <<>>), Pair("obj", <<>>, <<>>), Block("dictionary", <<>>),
     Block("cmp_stmt", <<>>), EmptyMacro}

CoreValues == {Sym(<<"a">>), Num(<<"7">>), Unsupported}

E0 == Expr1(Var(Num(<<"0">>), <<>>))
EX == Expr1(Var(Sym(<<"x">>), <<>>))
EOverflow == Expr1(Var(Id(<<"6", "5", "5", "3", "6">>, <<"g">>), <<>>))

CorePaths == {Sym(<<"b">>), Index(E0), Args(<<Arg(EX)>>), Index(EOverflow)}

PathSeqs == SeqsUpTo(CorePaths, MaxPath)

\* The postfix chain foo.bar[0](x).
Chain == Var(Sym(<<"f">>), <<Sym(<<"b">>), Index(E0), Args(<<Arg(EX)>>)>>)

LeafVars == {Var(v, <<>>) : v \in LeafValues} \cup {Chain}

\* Every base of CoreValues under every chain of PathSeqs.
PathVars == {Var(v, p) : v \in CoreValues, p \in PathSeqs}

CoreVars == {Var(v, <<>>) : v \in CoreValues}

LeafExprs ==
    {Expr1(x) : x \in LeafVars}
        \cup {Expr2(x, <<"+">>, y) : x \in CoreVars, y \in CoreVars}
        \cup {Expr3(x, <<"*">>, Var(Num(<<"7">>), <<>>), <<"-">>, x) : x \in CoreVars}

MacroWith(e) ==
    Pair("macro_def", <<>>,
         <<Pair("macro_args", <<>>,
                <<Pair("macro_arg", <<>>, <<Sym(<<"a">>)>>),
                  Pair("macro_arg", <<>>, <<Sym(<<"b">>), e>>)>>),
           Block("cmp_stmt", <<e>>)>>)

\* The variables that hold the expression e one level down.
Wrapped(e) ==
    {Var(e, <<>>),
     Var(Pair("array", <<>>, <<E0, e>>), <<>>),
     Var(Pair("obj", <<>>, <<Pair("obj_prop", <<>>, <<E0, e>>)>>), <<Sym(<<"b">>)>>),
     Var(Sym(<<"a">>), <<Index(e)>>),
     Var(Sym(<<"a">>), <<Args(<<ArgNamed(<<"k">>, e), Arg(E0)>>)>>),
     Var(MacroWith(e), <<>>),
     Var(Block("dictionary", <<Pair("def", <<>>, <<Sym(<<"m">>), e>>)>>), <<>>),
     Var(Block("cmp_stmt", <<Pair("retrn", <<>>, <<e>>)>>), <<>>),
     Var(Pair("value_literal", <<>>, <<e>>), <<>>),
     Var(Var(e, <<Sym(<<"b">>)>>), <<Sym(<<"c">>)>>)}

RECURSIVE Exprs(_)
Vars(d) == IF d = 0 THEN LeafVars ELSE LeafVars \cup UNION {Wrapped(e) : e \in Exprs(d - 1)}

Exprs(d) ==
    IF d = 0 THEN LeafExprs
    ELSE LeafExprs \cup {Expr1(x) : x \in Vars(d)}
             \cup {Expr2(Var(e, <<>>), <<"==">>, Var(Sym(<<"a">>), <<>>)) : e \in Exprs(d - 1)}

AllVars == Vars(MaxDepth) \cup PathVars
AllExprs == Exprs(MaxDepth)

NativeProps ==
    {Pair("native_prop", <<>>, <<Sym(<<"p">>), Args(<<>>)>>),
     Pair("native_prop", <<>>, <<Sym(<<"q">>), Args(<<Arg(E0), ArgNamed(<<"k">>, EX)>>)>>)}

PropSeqs == SeqsUpTo(NativeProps, MaxProps)

CoreExprs == {E0, EOverflow, Expr2(Var(Sym(<<"a">>), <<>>), <<"+">>, Var(Unsupported, <<>>))}

\* The definitions of e under every list of PropSeqs.
Defs ==
    {Pair("def", <<>>, <<e>> \o ps) : e \in CoreExprs, ps \in PropSeqs}
        \cup {Pair("def", <<>>, <<Sym(<<"n">>), e>> \o ps) : e \in CoreExprs, ps \in PropSeqs}

BareReturn == Pair("retrn", <<>>, <<>>)
EOI == Pair("EOI", <<>>, <<>>)

StmtsOf(e) ==
    {e, Pair("add_obj", <<>>, <<e>>), Pair("retrn", <<>>, <<e>>),
     Pair("def", <<>>, <<e>>), Pair("def", <<>>, <<Sym(<<"n">>), e>>),
     Pair("if_stmt", <<>>, <<e, Block("cmp_stmt", <<E0>>)>>),
     Pair("if_stmt", <<>>, <<E0, Block("cmp_stmt", <<BareReturn>>), Block("cmp_stmt", <<e>>)>>)}

StmtsOfVar(x) ==
    {Pair("call", <<>>, <<x>>),
     Pair("implement", <<>>,
          <<x, Block("dictionary", <<Pair("def", <<>>, <<Sym(<<"m">>), E0>>)>>)>>)}

ShallowStmts ==
    {Unsupported, EOI, BareReturn, E0, EOverflow, Pair("def", <<>>, <<Sym(<<"n">>), EX>>),
     Pair("call", <<>>, <<Var(Sym(<<"f">>), <<Args(<<>>)>>)>>)}

ShallowPrograms == SeqsUpTo(ShallowStmts, MaxStmts)

Sources ==
    {[readable |-> FALSE, accepted |-> FALSE, tree |-> Block("spwn", <<>>)],
     [readable |-> TRUE, accepted |-> FALSE, tree |-> Block("spwn", <<>>)]}
        \cup {[readable |-> TRUE, accepted |-> TRUE, tree |-> Block("spwn", Append(p, EOI))] :
                p \in ShallowPrograms}

(***************************************************************************)
(* The inputs of the helpers of ast.rs.                                    *)
(***************************************************************************)
StrChars == {Quote, "a", "b"}
Strings == SeqsUpTo(StrChars, MaxStrLen)

Variable(value) == [operator |-> None, value |-> value, path |-> <<>>]
Expression(value) == [values |-> <<Variable(value)>>, operators |-> <<>>]
Argument(value) == [symbol |-> None, value |-> Expression(value)]

TagArgs ==
    {<<>>, <<Argument(<<"Str", <<"h", "i">>>>)>>, <<Argument(<<"Number", 10>>)>>,
     <<Argument(<<"Str", <<"x">>>>), Argument(<<"Bool", TRUE>>)>>}

TagNames == {Desc, <<"o">>}
TagPairs == {<<n, as>> : n \in TagNames, as \in TagArgs}
Tags == SeqsUpTo(TagPairs, MaxTags)
Keys == TagNames \cup {<<"z">>}

(***************************************************************************)
(* One call of one function: its argument drawn at Init, its outcome in    *)
(* ret once it has returned or panicked.                                   *)
(***************************************************************************)
Init ==
    /\ pc = "call"
    /\ ret = <<>>
    /\ \/ fn = "parse_spwn" /\ arg \in Sources
       \/ fn = "parse_statements" /\ arg \in ShallowPrograms
       \/ fn = "parse_statements" /\ \E s \in Defs : arg = <<s>>
       \/ fn = "parse_statements" /\ \E e \in AllExprs : \E s \in StmtsOf(e) : arg = <<s>>
       \/ fn = "parse_statements" /\ \E x \in AllVars : \E s \in StmtsOfVar(x) : arg = <<s>>
       \/ fn = "parse_variable" /\ arg \in AllVars
       \/ fn = "parse_expr" /\ arg \in AllExprs
       \/ fn = "parse_value" /\ arg \in IdNodes \cup LeafValues
       \/ fn = "str_content" /\ arg \in Strings
       \/ fn = "Tag::get" /\ arg \in {[tags |-> ts, t |-> k] : ts \in Tags, k \in Keys}
       \/ fn = "Tag::get_desc" /\ arg \in Tags

Finish(r) ==
    /\ pc' = IF r.ok THEN "returned" ELSE "panicked"
    /\ ret' = r.val
    /\ UNCHANGED <<fn, arg>>

Call_parse_spwn == pc = "call" /\ fn = "parse_spwn" /\ Finish(parse_spwn(arg))
Call_parse_statements == pc = "call" /\ fn = "parse_statements" /\ Finish(call("parse_statements", arg))
Call_parse_variable == pc = "call" /\ fn = "parse_variable" /\ Finish(call("parse_variable", arg))
Call_parse_expr == pc = "call" /\ fn = "parse_expr" /\ Finish(call("parse_expr", arg))
Call_parse_value == pc = "call" /\ fn = "parse_value" /\ Finish(call("parse_value", arg))
Call_str_content == pc = "call" /\ fn = "str_content" /\ Finish(Ok(str_content(arg)))
Call_Tag_get == pc = "call" /\ fn = "Tag::get" /\ Finish(Ok(Tag_get(arg.tags, arg.t)))
Call_Tag_get_desc == pc = "call" /\ fn = "Tag::get_desc" /\ Finish(Tag_get_desc(arg))

Next ==
    \/ Call_parse_spwn
    \/ Call_parse_statements
    \/ Call_parse_variable
    \/ Call_parse_expr
    \/ Call_parse_value
    \/ Call_str_content
    \/ Call_Tag_get
    \/ Call_Tag_get_desc

Spec == Init /\ [][Next]_vars

(***************************************************************************)
(* Properties                                                              *)
(***************************************************************************)
Returned(f) == fn = f /\ pc = "returned"
Over(f) == fn = f /\ pc # "call"

Balanced(e) == Len(e.values) = Len(e.operators) + 1

RECURSIVE ExprOk(_)
RECURSIVE VarOk(_)
RECURSIVE StmtOk(_)

ArgsOk(as) == \A i \in 1..Len(as) : ExprOk(as[i].value)
StmtsOk(ss) == \A i \in 1..Len(ss) : StmtOk(ss[i])

ValueOk(v) ==
    CASE v[1] = "Expression" -> ExprOk(v[2])
      [] v[1] = "Array" -> \A i \in 1..Len(v[2]) : ExprOk(v[2][i])
      [] v[1] = "Obj" -> \A i \in 1..Len(v[2]) : ExprOk(v[2][i][1]) /\ ExprOk(v[2][i][2])
      [] v[1] = "Dictionary" -> StmtsOk(v[2].members)
      [] v[1] = "CmpStmt" -> StmtsOk(v[2].statements)
      [] v[1] = "Macro" ->
           /\ \A i \in 1..Len(v[2].args) :
                 v[2].args[i][2] # None => ExprOk(v[2].args[i][2][1])
           /\ StmtsOk(v[2].body.statements)
      [] OTHER -> TRUE

PathOk(p) ==
    CASE p[1] = "Index" -> ExprOk(p[2])
      [] p[1] = "Call" -> ArgsOk(p[2])
      [] OTHER -> TRUE

VarOk(x) == ValueOk(x.value) /\ \A i \in 1..Len(x.path) : PathOk(x.path[i])

ExprOk(e) == Balanced(e) /\ \A i \in 1..Len(e.values) : VarOk(e.values[i])

StmtOk(st) ==
    CASE st[1] = "Definition" ->
           /\ ExprOk(st[2].value)
           /\ \A i \in 1..Len(st[2].props) : ArgsOk(st[2].props[i][2])
      [] st[1] = "Call" -> VarOk(st[2].function)
      [] st[1] = "If" ->
           /\ ExprOk(st[2].condition)
           /\ StmtsOk(st[2].if_body)
           /\ st[2].else_body # None => StmtsOk(st[2].else_body[1])
      [] st[1] = "Impl" -> VarOk(st[2].symbol) /\ StmtsOk(st[2].members)
      [] st[1] \in {"Add", "Expr", "Return"} -> ExprOk(st[2])
      [] OTHER -> TRUE

\* C1: every Expression the tree builder returns, and every Expression nested in
\* what it returns (parenthesized, index, call argument, array, object and
\* dictionary entries, macro defaults and bodies, the Null expression of a bare
\* return), has exactly one value more than it has operators.
C1_ExpressionsBalanced ==
    /\ Returned("parse_expr") => ExprOk(ret)
    /\ Returned("parse_variable") => VarOk(ret)
    /\ Returned("parse_value") => ValueOk(ret)
    /\ Returned("parse_statements") => StmtsOk(ret)
    /\ Returned("parse_spwn") => StmtsOk(ret)

C1_Witness ==
    /\ Returned("parse_expr")
    /\ Len(ret.operators) = 1
    /\ ret.values[1].value[1] = "Expression"
    /\ Len(ret.values[1].value[2].operators) = 2

C1_WitnessBareReturn ==
    /\ Returned("parse_statements")
    /\ \E i \in 1..Len(arg) : arg[i] = BareReturn /\ ret[i][2] = NullExpression

\* C2: the tree-building pass returns a Statement list for every parse tree it is
\* given; no node makes it abort.
C2_BuilderNeverAborts == Over("parse_statements") => pc = "returned"

Recognized(p) == p.rule \in StatementRules

RECURSIVE KeepRecognized(_, _, _)
KeepRecognized(out, stmts, i) ==
    IF i > Len(stmts) THEN <<>>
    ELSE (IF Recognized(stmts[i]) THEN <<out[i]>> ELSE <<>>) \o KeepRecognized(out, stmts, i + 1)

\* C3: parse_statements returns one Statement per child, in child order (the
\* i-th is the one built from the i-th child alone); a child of an unrecognized
\* rule yields EOI at its position and never makes the call abort; the call
\* aborts exactly when it aborts without the unrecognized children, and
\* otherwise the other statements are those built without them.
C3_UnknownStatementIsPlaceholder ==
    Over("parse_statements") =>
        LET rest == SelectSeq(arg, Recognized)
            other == parse_statements(rest) IN
        /\ (pc = "returned") = other.ok
        /\ pc = "returned" =>
              /\ Len(ret) = Len(arg)
              /\ \A i \in 1..Len(arg) :
                    /\ ~Recognized(arg[i]) => ret[i][1] = "EOI"
                    /\ ret[i] = parse_statements(<<arg[i]>>).val[1]
              /\ KeepRecognized(ret, arg, 1) = other.val

C3_Witness ==
    /\ Returned("parse_statements")
    /\ Len(arg) = 3
    /\ ~Recognized(arg[2])
    /\ arg[1].rule = "def"
    /\ arg[3].rule = "call"
    /\ ret[2][1] = "EOI"

\* C4: a handle whose first child is a number has the numeric value of that
\* child's text as its number, unspecified false and the class of the next
\* child; any other handle has number 0, unspecified true and the class of its
\* only child; for every number text.
C4_HandleLiteral ==
    (Over("parse_value") /\ arg.rule = "id") =>
        /\ pc = "returned"
        /\ ret[1] = "ID"
        /\ IF arg.inner[1].rule = "number"
           THEN /\ ret[2].number = parse_f64(arg.inner[1].str).val
                /\ ret[2].unspecified = FALSE
                /\ ret[2].class_name = arg.inner[2].str
           ELSE /\ ret[2].number = 0
                /\ ret[2].unspecified = TRUE
                /\ ret[2].class_name = arg.inner[1].str

\* The entry of the path that parse_path builds from the child kid.
EntryFor(kid, entry) ==
    CASE kid.rule = "symbol" -> entry[1] = "Member" /\ entry[2] = kid.str
      [] kid.rule = "index" ->
           entry[1] = "Index" /\ entry[2] = parse_expr(kid.inner[1]).val
      [] kid.rule = "arguments" ->
           /\ entry[1] = "Call"
           /\ Len(entry[2]) = Len(kid.inner)
           /\ \A j \in 1..Len(kid.inner) :
                 entry[2][j].value
                   = parse_expr(kid.inner[j].inner[Len(kid.inner[j].inner)]).val
      [] OTHER -> FALSE

\* C5: a Variable returned by parse_variable for the children c0, ..., cn has the
\* literal built from c0 as its value and a path of n entries, the i-th built
\* from ci: Member for a symbol, Index for an index, Call for an argument list.
C5_PathInOrder ==
    Returned("parse_variable") =>
        /\ ret.value = parse_value(arg.inner[1]).val
        /\ Len(ret.path) = Len(arg.inner) - 1
        /\ \A i \in 1..Len(ret.path) : EntryFor(arg.inner[i + 1], ret.path[i])

C5_Witness ==
    /\ Returned("parse_variable")
    /\ arg = Chain
    /\ ret.value[1] = "Symbol"
    /\ ret.path[1][1] = "Member"
    /\ ret.path[2][1] = "Index"
    /\ ret.path[3][1] = "Call"

Min(S) == CHOOSE m \in S : \A n \in S : m <= n

Hits(tags, t) == {i \in 1..Len(tags) : tags[i][1] = t}

\* C6: Tag::get returns the argument list of the first pair named by the key,
\* None when there is none; Tag::get_desc returns None when no pair is named
\* desc or the first such pair has no argument, the text of that pair's first
\* argument when it is a string literal, and never depends on the pairs after
\* the first one named desc.
C6_TagFirstMatch ==
    /\ Returned("Tag::get") =>
          IF Hits(arg.tags, arg.t) = {} THEN ret = None
          ELSE ret = Some(arg.tags[Min(Hits(arg.tags, arg.t))][2])
    /\ Over("Tag::get_desc") =>
          /\ pc = "returned"
          /\ IF Hits(arg, Desc) = {} THEN ret = None
             ELSE LET first == Min(Hits(arg, Desc))
                      args == arg[first][2] IN
                  /\ Len(args) = 0 => ret = None
                  /\ (Len(args) > 0 /\ args[1].value.values[1].value[1] = "Str") =>
                        ret = Some(args[1].value.values[1].value[2])
                  /\ ret = Tag_get_desc(SubSeq(arg, 1, first)).val

C6_Witness ==
    /\ Returned("Tag::get_desc")
    /\ Cardinality(Hits(arg, Desc)) = 2
    /\ arg[1][1] # Desc
    /\ arg[Min(Hits(arg, Desc))][2] # arg[Len(arg)][2]
    /\ ret = Some(<<"h", "i">>)

NotQuote(c) == c # Quote

\* C7: str_content returns its input without its double quotes, the other
\* characters in order; the result holds no double quote and str_content leaves
\* it unchanged; a string literal of the parse tree is built through it.
C7_QuotesStripped ==
    /\ Returned("str_content") =>
          /\ ret = SelectSeq(arg, NotQuote)
          /\ \A i \in 1..Len(ret) : ret[i] # Quote
          /\ str_content(ret) = ret
    /\ (Returned("parse_value") /\ arg.rule = "string") =>
          ret[1] = "Str" /\ ret[2] = SelectSeq(arg.str, NotQuote)
    /\ (Returned("parse_value") /\ arg.rule = "import") =>
          ret[1] = "Import" /\ ret[2] = SelectSeq(arg.inner[1].str, NotQuote)

C7_Witness ==
    /\ Returned("str_content")
    /\ Len(arg) = 4
    /\ arg[1] = Quote
    /\ arg[3] = Quote
    /\ arg[4] # Quote
    /\ Len(ret) = 2

\* C8: parse_spwn on an unreadable path and on a text the grammar rejects each
\* panics, returning no statement list, and the panic tells which of the two
\* happened.
C8_FatalErrors ==
    Over("parse_spwn") =>
        /\ ~arg.readable => pc = "panicked"
        /\ ~arg.accepted => pc = "panicked"
        /\ pc = "panicked" =>
              /\ (ret = ReadFailed) = ~arg.readable
              /\ (ret = ParseFailed) = (arg.readable /\ ~arg.accepted)

C8_Witness == Over("parse_spwn") /\ arg.readable /\ ~arg.accepted /\ ret = ParseFailed

C8_WitnessUnreadable == Over("parse_spwn") /\ ~arg.readable /\ ret = ReadFailed

\* The tags that parse_statements builds from the children rest of a definition.
PropsFor(rest, props) ==
    /\ Len(props) = Len(rest)
    /\ \A i \in 1..Len(rest) :
          /\ props[i][1] = rest[i].inner[1].str
          /\ props[i][2] = parse_path(rest[i].inner[2]).val[2]

\* C9: a Definition built from a definition node whose first child is an
\* expression has symbol "*" and that expression as value, and one tag per
\* remaining child, in order; one whose first child is a symbol has that
\* symbol's text as symbol, the second child as value, and one tag per child
\* after the second, in order.
C9_Definition ==
    Returned("parse_statements") =>
        \A i \in 1..Len(arg) :
            arg[i].rule = "def" =>
                LET inner == arg[i].inner
                    d == ret[i][2] IN
                /\ ret[i][1] = "Definition"
                /\ IF inner[1].rule = "expr"
                   THEN /\ d.symbol = <<"*">>
                        /\ d.value = parse_expr(inner[1]).val
                        /\ PropsFor(SubSeq(inner, 2, Len(inner)), d.props)
                   ELSE /\ d.symbol = inner[1].str
                        /\ d.value = parse_expr(inner[2]).val
                        /\ PropsFor(SubSeq(inner, 3, Len(inner)), d.props)

C9_Witness ==
    /\ Returned("parse_statements")
    /\ Len(arg) = 1
    /\ arg[1].rule = "def"
    /\ arg[1].inner[1].rule = "symbol"
    /\ Len(arg[1].inner) = 4
    /\ ret[1][2].symbol = <<"n">>
    /\ Len(ret[1][2].props) = 2
    /\ ret[1][2].props[1][1] # ret[1][2].props[2][1]

C9_WitnessWildcard ==
    /\ Returned("parse_statements")
    /\ Len(arg) = 1
    /\ arg[1].rule = "def"
    /\ arg[1].inner[1].rule = "expr"
    /\ Len(arg[1].inner) = 3
    /\ ret[1][2].symbol = <<"*">>

\* C10: a value whose rule is none of the rules parse_value names is built as
\* Number(0) and never panics; parse_variable over it panics exactly when it
\* panics over a symbol followed by the same siblings, and otherwise builds the
\* same path from them.
C10_UnknownValueIsZero ==
    /\ (Over("parse_value") /\ arg.rule \notin ValueRules) =>
          pc = "returned" /\ ret[1] = "Number" /\ ret[2] = 0
    /\ (Over("parse_variable") /\ arg.inner[1].rule \notin ValueRules) =>
          LET twin == parse_variable(Var(Sym(<<"a">>), Tail(arg.inner))) IN
          /\ (pc = "returned") = twin.ok
          /\ pc = "returned" =>
                /\ ret.value[1] = "Number"
                /\ ret.value[2] = 0
                /\ ret.path = twin.val.path

C10_Witness ==
    /\ Returned("parse_variable")
    /\ arg.inner[1] = Unsupported
    /\ Len(arg.inner) = 3
    /\ ret.value[1] = "Number"
    /\ ret.path[1][1] = "Call"
    /\ ret.path[2][1] = "Member"

====
